---- MODULE Spec2Model ----
(***************************************************************************)
(* Last-Writer-Wins element set over Redis sorted sets (element_set.py).   *)
(*                                                                         *)
(* Time is counted in whole ticks relative to 1970-01-01T00:00:00 (tick 0  *)
(* is the epoch instant, negative ticks are instants before it).  A Redis  *)
(* sorted set is a function from its members to their scores.              *)
(***************************************************************************)
EXTENDS Integers, FiniteSets, Sequences, TLC

(* ---------------------------- bounds ----------------------------------- *)
MaxTime == 1
MaxOffset == 1
MaxNow == 2
NumThreads == 2

Elements == {"x", "y"}
(* The element argument of add and remove: an element, or an empty one     *)
(* (None or '').                                                           *)
ElementArgs == Elements \cup {""}
(* Instants given as timestamps: one before the epoch, the epoch, later.   *)
Times == (0 - 1)..MaxTime
(* UTC offsets of the local time zone of the process.                      *)
TZOffsets == (0 - MaxOffset)..MaxOffset
(* The values set_key can take (5 random letters and digits).              *)
KeySpace == {"k1", "k2"}
(* Concurrent callers of one set, and replicas of the set.                 *)
Threads == 1..NumThreads
Replicas == {"R1", "R2"}

(* The instant at which the module is imported and the class body runs.    *)
ImportTime == 1

(* ------------------------ timestamp strings ---------------------------- *)
(* A timestamp argument is a string.  fmt "iso" is a naive ISO-8601 date   *)
(* time, "isoz" the same with a UTC designator, "junk" is no date at all   *)
(* ('TEMP' in the tests), "omitted" stands for the argument left out.      *)
isoformat(t) == [fmt |-> "iso", t |-> t]
Junk == [fmt |-> "junk", t |-> 0]
Omitted == [fmt |-> "omitted", t |-> 0]
TimestampStrings ==
    {isoformat(t) : t \in Times} \cup {[fmt |-> "isoz", t |-> MaxTime], Junk}
TimestampArgs == TimestampStrings \cup {Omitted}

(* dateutil.parser.parse: a datetime (naive, or aware when the string      *)
(* carries an offset), or ValueError.                                      *)
parse(s) ==
    CASE s.fmt = "iso" -> [ok |-> TRUE, aware |-> FALSE, t |-> s.t]
      [] s.fmt = "isoz" -> [ok |-> TRUE, aware |-> TRUE, t |-> s.t]
      [] OTHER -> [ok |-> FALSE, aware |-> FALSE, t |-> 0]

(* The default of the timestamp parameter is evaluated once, when the def  *)
(* statement runs.                                                         *)
add_default == isoformat(ImportTime)
remove_default == isoformat(ImportTime)

VARIABLES
    redis,        \* the Redis server: key -> sorted set (member -> score)
    add_key,      \* self.add_set.set_key
    remove_key,   \* self.remove_set.set_key
    tz,           \* UTC offset of the process's local time zone
    now,          \* the wall clock (UTC)
    call,         \* the last call made on the set
    ret,          \* its outcome
    hist_add,     \* element -> greatest valid timestamp given to add
    hist_remove,  \* element -> greatest valid timestamp given to remove
    pc,           \* concurrent callers: where each is in its call
    frame,        \* concurrent callers: the locals of each call
    replica,      \* replicas: the Redis server and the two keys of each
    pending,      \* replicas: the operations not yet received by any
    reader        \* concurrent exists call: its position and locals

vars == <<redis, add_key, remove_key, tz, now, call, ret, hist_add, hist_remove,
          pc, frame, replica, pending, reader>>

(* What the calls on one set by one caller leave alone.                    *)
aside == <<pc, frame, replica, pending, reader>>

EmptyMap == [x \in {} |-> 0]

(* ------------------------------- ZSet ---------------------------------- *)
None == [some |-> FALSE, t |-> 0]
Some(t) == [some |-> TRUE, t |-> t]

(* redis_instance.zscore(set_key, element) *)
zscore(store, key, element) ==
    IF element \in DOMAIN store[key] THEN Some(store[key][element]) ELSE None

(* A write that replaces the sorted set by the one member written.        *)
zadd_replacing(store, key, score, element) ==
    [store EXCEPT ![key] = [m \in {element} |-> score]]

(* redis_instance.zadd(set_key, score, element) *)
zadd(store, key, score, element) ==
    [store EXCEPT ![key] =
        [m \in (DOMAIN @) \cup {element} |-> IF m = element THEN score ELSE @[m]]]

(* datetime.fromtimestamp: the local time of a POSIX timestamp.            *)
fromtimestamp(score, offset) == score + offset

(* (timestamp - datetime(1970, 1, 1)).total_seconds()                      *)
total_number_of_seconds(t) == t - 0

(* ZSet.__setitem__ *)
setitem(store, key, element, t) ==
    zadd(store, key, total_number_of_seconds(t), element)

(* ZSet.__getitem__: a score of 0 is falsy, like a missing score.          *)
getitem(store, key, element, offset) ==
    LET timestamp == zscore(store, key, element)
    IN  IF timestamp.some /\ timestamp.t # 0
        THEN Some(fromtimestamp(timestamp.t, offset))
        ELSE None

(* ZSet.__contains__ *)
contains(store, key, element, offset) ==
    getitem(store, key, element, offset).some

(* ZSet.keys *)
keys(store, key) == DOMAIN store[key]

(* ------------------------- LastWriterWinsSet --------------------------- *)
(* The timestamp a call works with: the argument, or the def-time default. *)
add_timestamp(arg) == IF arg = Omitted THEN add_default ELSE arg
remove_timestamp(arg) == IF arg = Omitted THEN remove_default ELSE arg

Outcome(store, exc, logged) == [store |-> store, exc |-> exc, logged |-> logged]

(* add with the `return` of the except branch lost: the call goes on with  *)
(* the default timestamp.                                                  *)
add_body_no_return(store, key, element, timestamp, offset) ==
    LET parsed == IF parse(timestamp).ok THEN parse(timestamp) ELSE parse(add_default)
    IN  IF element = "" THEN Outcome(store, "AssertionError", FALSE)
        ELSE IF parsed.aware THEN Outcome(store, "TypeError", FALSE)
        ELSE IF \/ ~contains(store, key, element, offset)
                \/ getitem(store, key, element, offset).t < parsed.t
             THEN Outcome(setitem(store, key, element, parsed.t), "none", ~parse(timestamp).ok)
             ELSE Outcome(store, "none", ~parse(timestamp).ok)

(* add without `assert element`: an empty element goes on to the table.    *)
add_body_no_assert(store, key, element, timestamp, offset) ==
    LET parsed == parse(timestamp)
    IN  IF ~parsed.ok THEN Outcome(store, "none", TRUE)
        ELSE IF parsed.aware THEN Outcome(store, "TypeError", FALSE)
        ELSE IF \/ ~contains(store, key, element, offset)
                \/ getitem(store, key, element, offset).t < parsed.t
             THEN Outcome(setitem(store, key, element, parsed.t), "none", FALSE)
             ELSE Outcome(store, "none", FALSE)

(* Body of LastWriterWinsSet.add on the sorted set `key`.                  *)
add_body(store, key, element, timestamp, offset) ==
    LET parsed == parse(timestamp)
    IN  IF element = "" THEN Outcome(store, "AssertionError", FALSE)
        ELSE IF ~parsed.ok THEN Outcome(store, "none", TRUE)
        ELSE IF parsed.aware THEN Outcome(store, "TypeError", FALSE)
        ELSE IF \/ ~contains(store, key, element, offset)
                \/ getitem(store, key, element, offset).t < parsed.t
             THEN Outcome(setitem(store, key, element, parsed.t), "none", FALSE)
             ELSE Outcome(store, "none", FALSE)

(* Body of LastWriterWinsSet.remove on the sorted set `key`.               *)
remove_body(store, key, element, timestamp, offset) ==
    LET parsed == parse(timestamp)
    IN  IF element = "" THEN Outcome(store, "AssertionError", FALSE)
        ELSE IF ~parsed.ok THEN Outcome(store, "none", TRUE)
        ELSE IF parsed.aware THEN Outcome(store, "TypeError", FALSE)
        ELSE IF \/ ~contains(store, key, element, offset)
                \/ getitem(store, key, element, offset).t < parsed.t
             THEN Outcome(setitem(store, key, element, parsed.t), "none", FALSE)
             ELSE Outcome(store, "none", FALSE)

(* exists with >= in place of >: add wins ties.                            *)
exists_body_ge(store, akey, rkey, element, offset) ==
    /\ contains(store, akey, element, offset)
    /\ \/ ~contains(store, rkey, element, offset)
       \/ getitem(store, akey, element, offset).t >=
              getitem(store, rkey, element, offset).t

(* LastWriterWinsSet.exists *)
exists_body(store, akey, rkey, element, offset) ==
    /\ contains(store, akey, element, offset)
    /\ \/ ~contains(store, rkey, element, offset)
       \/ getitem(store, akey, element, offset).t >
              getitem(store, rkey, element, offset).t

(* datetime > datetime as Python 2 evaluates it on the values __getitem__  *)
(* returns: None > None is False, None against a datetime raises TypeError.*)
gt_raises(a, b) == a.some # b.some
gt(a, b) == a.some /\ b.some /\ a.t > b.t

(* LastWriterWinsSet.get: the list as a set, or the exception raised.      *)
get_body(store, akey, rkey, offset) ==
    LET elements_of_add_set_not_in_remove_set ==
            keys(store, akey) \ keys(store, rkey)
        common_elements_of_add_and_remove_set ==
            keys(store, akey) \cap keys(store, rkey)
        A(e) == getitem(store, akey, e, offset)
        R(e) == getitem(store, rkey, e, offset)
    IN  IF \E e \in common_elements_of_add_and_remove_set : gt_raises(A(e), R(e))
        THEN [exc |-> "TypeError", elements |-> {}]
        ELSE [exc |-> "none",
              elements |-> elements_of_add_set_not_in_remove_set \cup
                  {e \in common_elements_of_add_and_remove_set : gt(A(e), R(e))}]

(* ------------------------------ records -------------------------------- *)
(* The last call: its name, its arguments (timestamp: the value of the     *)
(* parameter inside the body; defaulted: the argument was left out) and    *)
(* the wall-clock time at which it was made.  Its outcome as the caller    *)
(* sees it: the exception raised ("none": it returned), the boolean of     *)
(* exists, the elements of get; and whether logging.error was called.      *)
Call(op, element, timestamp, defaulted) ==
    [op |-> op, element |-> element, timestamp |-> timestamp,
     defaulted |-> defaulted, at |-> now]
Ret(exc, value, elements, logged) ==
    [exc |-> exc, value |-> value, elements |-> elements, logged |-> logged]

(* A call gives a valid timestamp when the string parses to a naive        *)
(* datetime.                                                               *)
Valid(timestamp) == parse(timestamp).ok /\ ~parse(timestamp).aware

Record(hist, element, t) ==
    [m \in (DOMAIN hist) \cup {element} |->
        IF m = element
        THEN IF element \in DOMAIN hist /\ hist[element] > t THEN hist[element] ELSE t
        ELSE hist[m]]

(* The locals of a call in progress: which method, its element, the       *)
(* parsed timestamp, and the exception it ended with.                      *)
Frame(op, element, parsed, exc) ==
    [op |-> op, element |-> element, parsed |-> parsed, exc |-> exc]
NoFrame == Frame("none", "", parse(Junk), "none")

(* An exists call in progress: its position, its element, the value read   *)
(* from the add set, its result, and (history) the results an exists       *)
(* would have given on each table state since the call began.              *)
Reader(at, element, left, value, exc, observed) ==
    [pc |-> at, element |-> element, left |-> left, value |-> value,
     exc |-> exc, observed |-> observed]
NoReader == Reader("idle", "", None, FALSE, "none", {})

(* The operations the replicas receive between them, each by one replica.  *)
Pool == [op : {"add", "remove"}, element : {"x"},
         timestamp : {isoformat(t) : t \in Times}]

(* ------------------------------ actions -------------------------------- *)
Init ==
    /\ redis = [k \in KeySpace |-> EmptyMap]
    /\ add_key \in KeySpace
    /\ remove_key \in KeySpace
    /\ tz \in TZOffsets
    /\ now = ImportTime
    /\ call = [op |-> "init", element |-> "", timestamp |-> Omitted,
               defaulted |-> FALSE, at |-> ImportTime]
    /\ ret = Ret("none", FALSE, {}, FALSE)
    /\ hist_add = EmptyMap
    /\ hist_remove = EmptyMap
    /\ pc = [p \in Threads |-> "idle"]
    /\ frame = [p \in Threads |-> NoFrame]
    /\ reader = NoReader
    /\ replica = EmptyMap
    /\ pending = {}

(* LastWriterWinsSet(): a further instance on the same Redis server; the   *)
(* model follows the newest instance.                                      *)
Construct ==
    /\ add_key' \in KeySpace
    /\ remove_key' \in KeySpace
    /\ call' = Call("init", "", Omitted, FALSE)
    /\ ret' = Ret("none", FALSE, {}, FALSE)
    /\ UNCHANGED <<redis, tz, now, hist_add, hist_remove, aside>>

(* One call of add: the handler's effect on the store and its outcome.     *)
add_call(element, arg) ==
    LET out == add_body(redis, add_key, element, add_timestamp(arg), tz)
    IN  /\ redis' = out.store
        /\ call' = Call("add", element, add_timestamp(arg), arg = Omitted)
        /\ ret' = Ret(out.exc, FALSE, {}, out.logged)
        /\ UNCHANGED <<add_key, remove_key, tz, now, aside>>

(* One call of remove. *)
remove_call(element, arg) ==
    LET out == remove_body(redis, remove_key, element, remove_timestamp(arg), tz)
    IN  /\ redis' = out.store
        /\ call' = Call("remove", element, remove_timestamp(arg), arg = Omitted)
        /\ ret' = Ret(out.exc, FALSE, {}, out.logged)
        /\ UNCHANGED <<add_key, remove_key, tz, now, aside>>

add(element, arg) ==
    add_call(element, arg) /\ UNCHANGED <<hist_add, hist_remove>>

remove(element, arg) ==
    remove_call(element, arg) /\ UNCHANGED <<hist_add, hist_remove>>

exists(element) ==
    /\ call' = Call("exists", element, Omitted, FALSE)
    /\ ret' = Ret("none", exists_body(redis, add_key, remove_key, element, tz), {}, FALSE)
    /\ UNCHANGED <<redis, add_key, remove_key, tz, now, hist_add, hist_remove, aside>>

(* get that also erases from the add set the elements it does not list.  *)
get_pruning ==
    LET out == get_body(redis, add_key, remove_key, tz)
        kept == [e \in DOMAIN redis[add_key] \cap out.elements |-> redis[add_key][e]]
    IN  /\ call' = Call("get", "", Omitted, FALSE)
        /\ ret' = Ret(out.exc, FALSE, out.elements, FALSE)
        /\ redis' = [redis EXCEPT ![add_key] = kept]
        /\ UNCHANGED <<add_key, remove_key, tz, now, hist_add, hist_remove, aside>>

get ==
    LET out == get_body(redis, add_key, remove_key, tz)
    IN  /\ call' = Call("get", "", Omitted, FALSE)
        /\ ret' = Ret(out.exc, FALSE, out.elements, FALSE)
        /\ UNCHANGED <<redis, add_key, remove_key, tz, now, hist_add, hist_remove, aside>>

Next ==
    \/ Construct
    \/ \E e \in ElementArgs, s \in TimestampArgs : add(e, s)
    \/ \E e \in ElementArgs, s \in TimestampArgs : remove(e, s)
    \/ \E e \in Elements : exists(e)
    \/ get

Spec == Init /\ [][Next]_vars

(* The wall clock advances. *)
Tick ==
    /\ now < MaxNow
    /\ now' = now + 1
    /\ UNCHANGED <<redis, add_key, remove_key, tz, call, ret, hist_add, hist_remove, aside>>

NextClock ==
    \/ Construct
    \/ \E e \in ElementArgs, s \in TimestampArgs : add(e, s)
    \/ \E e \in ElementArgs, s \in TimestampArgs : remove(e, s)
    \/ \E e \in Elements : exists(e)
    \/ get
    \/ Tick

SpecClock == Init /\ [][NextClock]_vars

(* ------------------------------ tables --------------------------------- *)
(* The add-table and the remove-table of the set are the two sorted sets   *)
(* it keeps in Redis: an element has an entry when it is a member of the   *)
(* sorted set, and the entry is its score.                                 *)
AddTable == redis[add_key]
RemoveTable == redis[remove_key]

(* Membership as the tables decide it: an add entry, and no remove entry   *)
(* or a strictly later add entry.                                          *)
Member(e) ==
    /\ e \in DOMAIN AddTable
    /\ e \notin DOMAIN RemoveTable \/ AddTable[e] > RemoveTable[e]

Tie(e) ==
    /\ e \in DOMAIN AddTable
    /\ e \in DOMAIN RemoveTable
    /\ AddTable[e] = RemoveTable[e]

(* The set keeps two distinct sorted sets and runs in a UTC process.       *)
Ordinary == add_key # remove_key /\ tz = 0

ExistsNow(e) == exists_body(redis, add_key, remove_key, e, tz)
GetNow == get_body(redis, add_key, remove_key, tz)

(* C3: exists(e) returns true exactly when e has an add-table entry and    *)
(* either no remove-table entry or a strictly greater add entry; stated of *)
(* the value every exists call returns and of every reachable table state *)
(* of a set with two distinct sorted sets in a UTC process.                *)
C3_ExistsIsFunctionOfEntries ==
    Ordinary =>
        /\ \A e \in Elements : ExistsNow(e) <=> Member(e)
        /\ call.op = "exists" => (ret.value <=> Member(call.element))

(* C4: whenever e has an entry in both tables and the two entries are      *)
(* equal, exists(e) is false and the elements get() yields do not include  *)
(* e; the value returned by an exists call made in such a state is false.  *)
C4_RemoveWinsTies ==
    /\ \A e \in Elements :
           Tie(e) => ~ExistsNow(e) /\ e \notin GetNow.elements
    /\ (call.op = "exists" /\ Tie(call.element)) => ~ret.value
    /\ call.op = "get" => \A e \in Elements : Tie(e) => e \notin ret.elements

(* C4 witness: exists was called on an element whose two entries are equal *)
(* and not the epoch, in two distinct sorted sets, and returned false.     *)
C4_Witness ==
    /\ call.op = "exists"
    /\ add_key # remove_key
    /\ Tie(call.element)
    /\ AddTable[call.element] # 0
    /\ ~ret.value

(* C5: in every reachable table state get() completes and returns exactly  *)
(* the elements for which exists is true (stated for a set with two        *)
(* distinct sorted sets in a UTC process).                                 *)
C5_GetAgreesWithExists ==
    Ordinary =>
        /\ GetNow.exc = "none"
        /\ GetNow.elements = {e \in Elements : ExistsNow(e)}

(* C7: an add or remove call whose timestamp cannot be parsed leaves both  *)
(* tables, and the whole store, exactly as they were (every step that ends *)
(* with such a call as the last call is that call, or changes no table).   *)
C7_InvalidTimestampNoChange ==
    [][(call'.op \in {"add", "remove"} /\ ~parse(call'.timestamp).ok)
          => /\ redis' = redis
             /\ AddTable' = AddTable
             /\ RemoveTable' = RemoveTable]_vars

(* C7 witness: an add with an unparseable timestamp has been made for an   *)
(* element that is not in the add-table, while the tables hold entries.    *)
C7_Witness ==
    /\ call.op = "add"
    /\ ~parse(call.timestamp).ok
    /\ ret.logged
    /\ call.element \notin DOMAIN AddTable
    /\ DOMAIN AddTable # {}
    /\ DOMAIN RemoveTable # {}
    /\ add_key # remove_key

(* C8: an add or remove call whose timestamp cannot be parsed ends with a  *)
(* failure the caller can see (it does not return normally).               *)
C8_InvalidTimestampReported ==
    (call.op \in {"add", "remove"} /\ ~parse(call.timestamp).ok)
        => ret.exc # "none"

(* C9: a call made without a timestamp applies the wall-clock time of the  *)
(* moment of the call.                                                     *)
C9_FreshDefaultTimestamp ==
    (call.op \in {"add", "remove"} /\ call.defaulted)
        => parse(call.timestamp).t = call.at

(* C11: an add or remove call whose element is empty ends with an error   *)
(* the caller sees (the AssertionError of `assert element`), whatever its  *)
(* timestamp, and leaves the whole store, so both tables, unchanged.       *)
C11_InvalidElementRejected ==
    [][(call'.op \in {"add", "remove"} /\ call'.element = "")
          => /\ ret'.exc = "AssertionError"
             /\ redis' = redis
             /\ AddTable' = AddTable
             /\ RemoveTable' = RemoveTable]_vars

(* C11 witness: an add with an empty element and a valid timestamp has     *)
(* been made on a set whose tables hold entries; it raised.                *)
C11_Witness ==
    /\ call.op = "add"
    /\ call.element = ""
    /\ Valid(call.timestamp)
    /\ ret.exc = "AssertionError"
    /\ add_key # remove_key
    /\ DOMAIN AddTable # {}
    /\ DOMAIN RemoveTable # {}

(* C12: a newly constructed set has an empty add-table and an empty       *)
(* remove-table, exists is false for every element and get() is empty,     *)
(* whatever earlier instances did on the same store (stated for a set      *)
(* whose own two keys differ).                                             *)
C12_NewSetStartsEmpty ==
    (call.op = "init" /\ add_key # remove_key)
        => /\ AddTable = EmptyMap
           /\ RemoveTable = EmptyMap
           /\ \A e \in Elements : ~ExistsNow(e)
           /\ GetNow.elements = {}

(* C13: a call of exists or get leaves the store, and so the add-table     *)
(* and the remove-table of the set, exactly as they were.                  *)
C13_QueriesHaveNoSideEffects ==
    [][call'.op \in {"exists", "get"}
          => /\ redis' = redis
             /\ AddTable' = AddTable
             /\ RemoveTable' = RemoveTable]_vars

(* C13 witness: get has returned on a set that holds an element in both    *)
(* tables which get does not list.                                         *)
C13_Witness ==
    /\ call.op = "get"
    /\ ret.exc = "none"
    /\ add_key # remove_key
    /\ \E e \in Elements :
          /\ e \in DOMAIN AddTable
          /\ e \in DOMAIN RemoveTable
          /\ e \notin ret.elements

(* C14: while a set lives (its two keys stay the same), every step keeps   *)
(* every entry of its add-table and of its remove-table: no call of add,   *)
(* remove, exists or get, failed or not, erases one.                       *)
C14_EntriesNeverDeleted ==
    [][(add_key' = add_key /\ remove_key' = remove_key)
          => /\ DOMAIN AddTable \subseteq DOMAIN AddTable'
             /\ DOMAIN RemoveTable \subseteq DOMAIN RemoveTable']_vars

(* C14 witness: a remove has been made of an element whose add-table       *)
(* entry is older; the entry is still there, beside those of another       *)
(* element.                                                                *)
C14_Witness ==
    /\ call.op = "remove"
    /\ ret.exc = "none"
    /\ add_key # remove_key
    /\ call.element \in DOMAIN AddTable
    /\ call.element \in DOMAIN RemoveTable
    /\ AddTable[call.element] < RemoveTable[call.element]
    /\ \E e \in Elements \ {call.element} : e \in DOMAIN AddTable

(* C16: a step that ends with an add call leaves the remove-table as it   *)
(* was, and a step that ends with a remove call leaves the add-table as it *)
(* was, for every pair of keys the constructor can draw.                   *)
C16_OwnTableOnly ==
    [][/\ call'.op = "add" => RemoveTable' = RemoveTable
       /\ call'.op = "remove" => AddTable' = AddTable]_vars

(* C17: every entry of a table, written last by table[e] = t, passes the  *)
(* membership test `e in table` and reads back through table[e] as a       *)
(* timestamp equal to t, the epoch and earlier instants included (stated   *)
(* for a UTC process and a set whose two keys differ).                     *)
C17_TableRoundTrip ==
    Ordinary =>
        \A key \in {add_key, remove_key} : \A e \in DOMAIN redis[key] :
            /\ contains(redis, key, e, tz)
            /\ getitem(redis, key, e, tz) = Some(redis[key][e])

(* ------------------- one set, with its call history -------------------- *)
(* The same calls on one set, with the greatest valid timestamp given to   *)
(* add and to remove for each element kept beside the program state.       *)
add_tracked(element, arg) ==
    /\ add_call(element, arg)
    /\ hist_add' = IF Valid(add_timestamp(arg))
                   THEN Record(hist_add, element, parse(add_timestamp(arg)).t)
                   ELSE hist_add
    /\ UNCHANGED hist_remove

remove_tracked(element, arg) ==
    /\ remove_call(element, arg)
    /\ hist_remove' = IF Valid(remove_timestamp(arg))
                      THEN Record(hist_remove, element, parse(remove_timestamp(arg)).t)
                      ELSE hist_remove
    /\ UNCHANGED hist_add

NextHist ==
    \/ \E e \in Elements, s \in TimestampArgs : add_tracked(e, s)
    \/ \E e \in Elements, s \in TimestampArgs : remove_tracked(e, s)
    \/ \E e \in Elements : exists(e)
    \/ get

SpecHist == Init /\ [][NextHist]_vars

(* C1: after any sequence of add and remove calls with valid timestamps,   *)
(* exists(e) is true exactly when e received an add and either no remove   *)
(* or a greatest add timestamp strictly above its greatest remove          *)
(* timestamp (stated for a set with two distinct sorted sets in a UTC      *)
(* process).                                                               *)
C1_LastWriterWinsOverHistory ==
    Ordinary =>
        /\ \A e \in Elements :
               ExistsNow(e) <=>
                   /\ e \in DOMAIN hist_add
                   /\ e \notin DOMAIN hist_remove \/ hist_add[e] > hist_remove[e]
        /\ call.op = "exists" =>
               (ret.value <=>
                   /\ call.element \in DOMAIN hist_add
                   /\ \/ call.element \notin DOMAIN hist_remove
                      \/ hist_add[call.element] > hist_remove[call.element])

(* C2: after each call the add-table entry of e is the greatest timestamp  *)
(* given to add for e so far, and the remove-table entry the greatest      *)
(* given to remove (stated for a set with two distinct sorted sets in a    *)
(* UTC process).                                                           *)
C2_TableHoldsMaximum ==
    Ordinary =>
        /\ \A e \in DOMAIN hist_add :
               e \in DOMAIN AddTable /\ AddTable[e] = hist_add[e]
        /\ \A e \in DOMAIN hist_remove :
               e \in DOMAIN RemoveTable /\ RemoveTable[e] = hist_remove[e]

(* --------------------- concurrent callers of one set ------------------- *)
(* Several callers run add or remove on the same set at once.  A call is   *)
(* a sequence of Redis round trips (zscore, zscore, zadd), each atomic;    *)
(* what Python computes between two round trips is local to the caller.    *)
TableKey(op) == IF op = "add" THEN add_key ELSE remove_key

(* The call starts: the asserts and parse(timestamp); a ValueError is      *)
(* logged and the call returns.                                            *)
begin(p, op, element, timestamp) ==
    /\ pc[p] = "idle"
    /\ frame' = [frame EXCEPT ![p] = Frame(op, element, parse(timestamp), "none")]
    /\ pc' = [pc EXCEPT ![p] = IF parse(timestamp).ok THEN "contains" ELSE "done"]
    /\ UNCHANGED <<redis, add_key, remove_key, tz, now, call, ret,
                   hist_add, hist_remove, replica, pending, reader>>

(* `element not in self.add_set`: ZSet.__contains__, one zscore.  Without  *)
(* a truthy score the call goes on to write (__setitem__ raises TypeError  *)
(* on an aware datetime before it reaches zadd).                           *)
read_contains(p) ==
    /\ pc[p] = "contains"
    /\ LET f == frame[p]
           found == contains(redis, TableKey(f.op), f.element, tz)
       IN  IF found
           THEN /\ pc' = [pc EXCEPT ![p] = "compare"]
                /\ frame' = frame
           ELSE IF f.parsed.aware
           THEN /\ pc' = [pc EXCEPT ![p] = "done"]
                /\ frame' = [frame EXCEPT ![p].exc = "TypeError"]
           ELSE /\ pc' = [pc EXCEPT ![p] = "write"]
                /\ frame' = frame
    /\ UNCHANGED <<redis, add_key, remove_key, tz, now, call, ret,
                   hist_add, hist_remove, replica, pending, reader>>

(* `self.add_set[element] < timestamp`: ZSet.__getitem__, a second zscore. *)
(* None or a naive datetime against an aware one raises TypeError.         *)
read_compare(p) ==
    /\ pc[p] = "compare"
    /\ LET f == frame[p]
           stored == getitem(redis, TableKey(f.op), f.element, tz)
       IN  IF ~stored.some \/ f.parsed.aware
           THEN /\ pc' = [pc EXCEPT ![p] = "done"]
                /\ frame' = [frame EXCEPT ![p].exc = "TypeError"]
           ELSE /\ pc' = [pc EXCEPT ![p] = IF stored.t < f.parsed.t THEN "write" ELSE "done"]
                /\ frame' = frame
    /\ UNCHANGED <<redis, add_key, remove_key, tz, now, call, ret,
                   hist_add, hist_remove, replica, pending, reader>>

(* History kept for an exists call in progress: what exists gives on the  *)
(* table state `store`, added to what it gave on the states before.        *)
Observe(rd, store) ==
    IF rd.pc \in {"idle", "done"} THEN rd
    ELSE [rd EXCEPT !.observed =
              @ \cup {exists_body(store, add_key, remove_key, rd.element, tz)}]

(* `self.add_set[element] = timestamp`: ZSet.__setitem__, one zadd.        *)
write(p) ==
    /\ pc[p] = "write"
    /\ redis' = setitem(redis, TableKey(frame[p].op), frame[p].element, frame[p].parsed.t)
    /\ pc' = [pc EXCEPT ![p] = "done"]
    /\ reader' = Observe(reader, redis')
    /\ UNCHANGED <<add_key, remove_key, tz, now, call, ret, frame,
                   hist_add, hist_remove, replica, pending>>

NextConc ==
    \/ \E p \in Threads, op \in {"add", "remove"}, e \in Elements,
          s \in TimestampStrings : begin(p, op, e, s)
    \/ \E p \in Threads : read_contains(p)
    \/ \E p \in Threads : read_compare(p)
    \/ \E p \in Threads : write(p)

SpecConc == Init /\ [][NextConc]_vars

(* The valid timestamps the callers have given to `op` for element e.      *)
Submitted(op, e) ==
    {frame[p].parsed.t : p \in {q \in Threads :
        /\ pc[q] # "idle"
        /\ frame[q].op = op
        /\ frame[q].element = e
        /\ frame[q].parsed.ok /\ ~frame[q].parsed.aware}}

Max(S) == CHOOSE m \in S : \A n \in S : n <= m

(* C6: once all concurrent add (remove) calls have returned, the table     *)
(* entry of each element is the greatest timestamp submitted for it.       *)
(* Stated for callers none of which gives the epoch instant, in a UTC      *)
(* process, to a set with two distinct sorted sets.                        *)
C6_NoLostUpdate ==
    (/\ Ordinary
     /\ \A p \in Threads : pc[p] = "done" /\ frame[p].parsed.ok /\ frame[p].parsed.t # 0)
    => \A op \in {"add", "remove"}, e \in Elements :
           Submitted(op, e) # {} =>
               /\ e \in DOMAIN redis[TableKey(op)]
               /\ redis[TableKey(op)][e] = Max(Submitted(op, e))

(* ------------------ exists concurrent with the writers ----------------- *)
(* One caller runs exists while others run add and remove.  exists makes   *)
(* up to four Redis round trips, each atomic: __contains__ on the add set, *)
(* __contains__ on the remove set, __getitem__ on the add set and          *)
(* __getitem__ on the remove set.                                          *)
WriterTimes == Times \cup {MaxTime + 1}

(* A set in a UTC process, with two distinct sorted sets, on which x has   *)
(* been added and removed by a single caller.                              *)
InitReaders ==
    /\ \E ta, tr \in Times :
          redis = remove_body(
                      add_body([k \in KeySpace |-> EmptyMap], "k1", "x",
                               isoformat(ta), 0).store,
                      "k2", "x", isoformat(tr), 0).store
    /\ add_key = "k1"
    /\ remove_key = "k2"
    /\ tz = 0
    /\ now = ImportTime
    /\ call = [op |-> "init", element |-> "", timestamp |-> Omitted,
               defaulted |-> FALSE, at |-> ImportTime]
    /\ ret = Ret("none", FALSE, {}, FALSE)
    /\ hist_add = EmptyMap
    /\ hist_remove = EmptyMap
    /\ pc = [p \in Threads |-> "idle"]
    /\ frame = [p \in Threads |-> NoFrame]
    /\ reader = NoReader
    /\ replica = EmptyMap
    /\ pending = {}

(* exists(element) is called. *)
exists_begin(element) ==
    /\ reader.pc = "idle"
    /\ reader' = Reader("contains_add", element, None, FALSE, "none",
                        {exists_body(redis, add_key, remove_key, element, tz)})
    /\ UNCHANGED <<redis, add_key, remove_key, tz, now, call, ret,
                   hist_add, hist_remove, pc, frame, replica, pending>>

(* `element in self.add_set`: one zscore; False ends the call.             *)
exists_contains_add ==
    /\ reader.pc = "contains_add"
    /\ reader' = IF contains(redis, add_key, reader.element, tz)
                 THEN [reader EXCEPT !.pc = "contains_remove"]
                 ELSE [reader EXCEPT !.pc = "done", !.value = FALSE]
    /\ UNCHANGED <<redis, add_key, remove_key, tz, now, call, ret,
                   hist_add, hist_remove, pc, frame, replica, pending>>

(* `element not in self.remove_set`: one zscore; True ends the call.       *)
exists_contains_remove ==
    /\ reader.pc = "contains_remove"
    /\ reader' = IF contains(redis, remove_key, reader.element, tz)
                 THEN [reader EXCEPT !.pc = "getitem_add"]
                 ELSE [reader EXCEPT !.pc = "done", !.value = TRUE]
    /\ UNCHANGED <<redis, add_key, remove_key, tz, now, call, ret,
                   hist_add, hist_remove, pc, frame, replica, pending>>

(* `self.add_set[element]`, the left operand of `>`: one zscore.           *)
exists_getitem_add ==
    /\ reader.pc = "getitem_add"
    /\ reader' = [reader EXCEPT !.pc = "getitem_remove",
                                !.left = getitem(redis, add_key, reader.element, tz)]
    /\ UNCHANGED <<redis, add_key, remove_key, tz, now, call, ret,
                   hist_add, hist_remove, pc, frame, replica, pending>>

(* `self.remove_set[element]`, the right operand: one zscore, then `>`.    *)
(* A datetime against None raises TypeError; None > None is False.         *)
exists_getitem_remove ==
    /\ reader.pc = "getitem_remove"
    /\ LET right == getitem(redis, remove_key, reader.element, tz)
       IN  reader' = IF reader.left.some # right.some
                     THEN [reader EXCEPT !.pc = "done", !.exc = "TypeError"]
                     ELSE [reader EXCEPT !.pc = "done",
                               !.value = reader.left.some /\ reader.left.t > right.t]
    /\ UNCHANGED <<redis, add_key, remove_key, tz, now, call, ret,
                   hist_add, hist_remove, pc, frame, replica, pending>>

NextReaders ==
    \/ \E p \in Threads, op \in {"add", "remove"}, t \in WriterTimes :
          begin(p, op, "x", isoformat(t))
    \/ \E p \in Threads : read_contains(p)
    \/ \E p \in Threads : read_compare(p)
    \/ \E p \in Threads : write(p)
    \/ exists_begin("x")
    \/ exists_contains_add
    \/ exists_contains_remove
    \/ exists_getitem_add
    \/ exists_getitem_remove

SpecReaders == InitReaders /\ [][NextReaders]_vars

(* C18: the value an exists call returns is the value exists gives on the  *)
(* table state of some instant between the call's start and its return.   *)
(* Stated for calls that return a value, when no score in the store and no *)
(* timestamp of a writer is the epoch instant.                             *)
C18_ExistsLinearizable ==
    (/\ reader.pc = "done"
     /\ reader.exc = "none"
     /\ \A key \in KeySpace : \A e \in DOMAIN redis[key] : redis[key][e] # 0
     /\ \A p \in Threads : pc[p] # "idle" => frame[p].parsed.t # 0)
    => reader.value \in reader.observed

(* ------------------------------ replicas ------------------------------- *)
(* Two replicas of the set, each a LastWriterWinsSet next to its own Redis *)
(* server.  The operations of Pool reach the replicas one at a time, each  *)
(* operation reaching one replica.  The class offers a replica add,        *)
(* remove, exists and get, and nothing that takes another replica.         *)
InitReplicas ==
    /\ redis = [k \in KeySpace |-> EmptyMap]
    /\ add_key = "k1"
    /\ remove_key = "k2"
    /\ tz \in TZOffsets
    /\ now = ImportTime
    /\ call = [op |-> "init", element |-> "", timestamp |-> Omitted,
               defaulted |-> FALSE, at |-> ImportTime]
    /\ ret = Ret("none", FALSE, {}, FALSE)
    /\ hist_add = EmptyMap
    /\ hist_remove = EmptyMap
    /\ pc = [p \in Threads |-> "idle"]
    /\ frame = [p \in Threads |-> NoFrame]
    /\ reader = NoReader
    /\ replica \in [Replicas -> [redis : {[k \in KeySpace |-> EmptyMap]},
                                  add_key : KeySpace, remove_key : KeySpace]]
    /\ pending = Pool

(* Replica r receives an add. *)
replica_add(r, o) ==
    /\ o \in pending
    /\ o.op = "add"
    /\ replica' = [replica EXCEPT ![r].redis =
           add_body(@, replica[r].add_key, o.element, o.timestamp, tz).store]
    /\ pending' = pending \ {o}
    /\ UNCHANGED <<redis, add_key, remove_key, tz, now, call, ret,
                   hist_add, hist_remove, pc, frame, reader>>

(* Replica r receives a remove. *)
replica_remove(r, o) ==
    /\ o \in pending
    /\ o.op = "remove"
    /\ replica' = [replica EXCEPT ![r].redis =
           remove_body(@, replica[r].remove_key, o.element, o.timestamp, tz).store]
    /\ pending' = pending \ {o}
    /\ UNCHANGED <<redis, add_key, remove_key, tz, now, call, ret,
                   hist_add, hist_remove, pc, frame, reader>>

NextReplicas ==
    \/ \E r \in Replicas, o \in Pool : replica_add(r, o)
    \/ \E r \in Replicas, o \in Pool : replica_remove(r, o)

SpecReplicas == InitReplicas /\ [][NextReplicas]_vars

ReplicaAddTable(r) == replica[r].redis[replica[r].add_key]
ReplicaRemoveTable(r) == replica[r].redis[replica[r].remove_key]

(* C10: two replicas that received disjoint subsets of the operations end, *)
(* once every operation has been received and everything the set offers   *)
(* for bringing replicas together has run, with identical add-tables and   *)
(* identical remove-tables (stated for replicas that each keep two         *)
(* distinct sorted sets, in UTC processes).                                *)
C10_MergeConvergence ==
    (/\ pending = {}
     /\ tz = 0
     /\ \A r \in Replicas : replica[r].add_key # replica[r].remove_key) =>
        \A r1, r2 \in Replicas :
            /\ ReplicaAddTable(r1) = ReplicaAddTable(r2)
            /\ ReplicaRemoveTable(r1) = ReplicaRemoveTable(r2)

(* ------------------------ two orders of one collection ----------------- *)

Orders == {"R1", "R2"}

(* Two initially empty sets, each on its own store with two distinct       *)
(* sorted sets, and one collection of add and remove operations with       *)
(* valid timestamps that each of them is to apply, in an order of its own. *)
InitOrder ==
    /\ redis = [k \in KeySpace |-> EmptyMap]
    /\ add_key = "k1"
    /\ remove_key = "k2"
    /\ tz \in TZOffsets
    /\ now = ImportTime
    /\ call = [op |-> "init", element |-> "", timestamp |-> Omitted,
               defaulted |-> FALSE, at |-> ImportTime]
    /\ ret = Ret("none", FALSE, {}, FALSE)
    /\ hist_add = EmptyMap
    /\ hist_remove = EmptyMap
    /\ pc = [p \in Threads |-> "idle"]
    /\ frame = [p \in Threads |-> NoFrame]
    /\ reader = NoReader
    /\ replica = [r \in Orders |-> [redis |-> [k \in KeySpace |-> EmptyMap],
                                     add_key |-> "k1", remove_key |-> "k2"]]
    /\ \E collection \in SUBSET Pool : pending = Orders \X collection

(* Set r applies, as its next call, the add o of the collection. *)
order_add(r, o) ==
    /\ <<r, o>> \in pending
    /\ o.op = "add"
    /\ replica' = [replica EXCEPT ![r].redis =
           add_body(@, replica[r].add_key, o.element, o.timestamp, tz).store]
    /\ pending' = pending \ {<<r, o>>}
    /\ UNCHANGED <<redis, add_key, remove_key, tz, now, call, ret,
                   hist_add, hist_remove, pc, frame, reader>>

(* Set r applies, as its next call, the remove o of the collection. *)
order_remove(r, o) ==
    /\ <<r, o>> \in pending
    /\ o.op = "remove"
    /\ replica' = [replica EXCEPT ![r].redis =
           remove_body(@, replica[r].remove_key, o.element, o.timestamp, tz).store]
    /\ pending' = pending \ {<<r, o>>}
    /\ UNCHANGED <<redis, add_key, remove_key, tz, now, call, ret,
                   hist_add, hist_remove, pc, frame, reader>>

NextOrder ==
    \/ \E r \in Orders, o \in Pool : order_add(r, o)
    \/ \E r \in Orders, o \in Pool : order_remove(r, o)

SpecOrder == InitOrder /\ [][NextOrder]_vars

OrderExists(r, e) ==
    exists_body(replica[r].redis, replica[r].add_key, replica[r].remove_key, e, tz)
OrderGet(r) ==
    get_body(replica[r].redis, replica[r].add_key, replica[r].remove_key, tz)

(* C15: once two initially empty sets have each applied every operation    *)
(* of the same collection of adds and removes with valid timestamps, each  *)
(* in its own order, they have the same add-table, the same remove-table   *)
(* and the same exists and get results (stated for a UTC process).         *)
C15_OrderDoesNotMatter ==
    (pending = {} /\ tz = 0) =>
        \A r1, r2 \in Orders :
            /\ ReplicaAddTable(r1) = ReplicaAddTable(r2)
            /\ ReplicaRemoveTable(r1) = ReplicaRemoveTable(r2)
            /\ \A e \in Elements : OrderExists(r1, e) = OrderExists(r2, e)
            /\ OrderGet(r1) = OrderGet(r2)

====
